---- MODULE Spec2Model ----
(***************************************************************************)
(* Model of the step-orchestration engine of src/utils/workflow-retry.ts:  *)
(* WorkflowRetry (the sequence), WorkflowAction (a step), WorkflowContext, *)
(* WorkflowResult and WorkflowBreakError.                                  *)
(*                                                                         *)
(* A step of the model is one settlement of an awaited call (a step body   *)
(* or a hook) together with all the synchronous code that runs up to the   *)
(* next awaited call.  Bodies and hooks are opaque: each settles by        *)
(* returning, by throwing an ordinary value, by calling break(reason) of   *)
(* the workflow (which throws a WorkflowBreakError through it), or by      *)
(* throwing a WorkflowBreakError it built itself.  The waits between       *)
(* attempts (setImmediate / setTimeout) only pass time and are folded into *)
(* the step that starts the next attempt.                                  *)
(*                                                                         *)
(* Beside it, the MessagesReleaser of src/utils/messages-releaser.ts, a    *)
(* buffer of strings with its add and release methods.                     *)
(***************************************************************************)
EXTENDS Integers, Sequences, FiniteSets, TLC

\* ------------------------------------------------------------------ bounds
\* the size of the largest workflow built: its attempts times the sum of its
\* actions' attempts (the most step-body invocations one execute() call can
\* make), plus the number of hooks registered on it and on its actions
MaxSize == 4
MaxRuns == 2
\* the size of the largest workflow whose step bodies write to the context
MaxWriteSize == 3
\* the size of the largest workflow whose builder remembers the options it passed
MaxOptionsSize == 3
\* the size of the largest workflow that is executed more than once
MaxReuseSize == 3
\* the size of the largest workflow on which execute() calls overlap
MaxOverlapSize == 3
\* the most messages a MessagesReleaser holds
MaxMessages == 3

\* ------------------------------------------------------------- value sets
Names == {"a", "b"}
Values == {"v1", "v2"}
\* instances of Error (identity = the string)
Errors == {"E1", "E2"}
\* values that are not instances of Error; "undefined" is break() without argument
NonErrors == {"stop", "undefined"}
Reasons == Errors \cup NonErrors
\* ordinary values a body or a hook may throw
Thrown == Errors \cup {"stop"}
\* an instance of WorkflowBreakError, message 'Workflow execution was interrupted'
WorkflowBreakError == "WorkflowBreakError"
None == "none"

RunIds == 1..MaxRuns
ActionHooks == {"onRetry", "onSuccess", "onFailed"}
WorkflowHooks == {"onRetry", "onSuccess", "onFailed", "onBreak"}

\* how an awaited body or hook settles
Outcomes ==
    [kind : {"return"}, val : Values]
      \cup [kind : {"throw"}, val : Thrown]
      \cup [kind : {"break"}, val : Reasons]
      \cup [kind : {"throwBreakError"}, val : {None}]
HookOutcomes ==
    {o \in Outcomes : o.kind = "return" => o.val = "v1"}
BodyOutcomes ==
    {o \in Outcomes : o.kind = "throw" => o.val \in Errors}
\* the outcomes of a workflow whose bodies and hooks settle in only a few ways
FewOutcomes ==
    {[kind |-> "return", val |-> "v1"], [kind |-> "return", val |-> "v2"],
     [kind |-> "throw", val |-> "E1"],
     [kind |-> "break", val |-> "E2"], [kind |-> "break", val |-> "stop"]}
\* what a step body may add to the context it is given before it settles:
\* nothing, or one context.addResult(name, value)
WriteNames == {"a", "k"}
ContextWrites == {<<>>} \cup {<<n, "w">> : n \in WriteNames}

VARIABLES
    attempts,     \* WorkflowRetry.attempts
    hooks,        \* which of onRetry/onSuccess/onFailed/onBreak the options gave
    actions,      \* WorkflowRetry.actions: the WorkflowAction objects, in order
    isBroken,     \* WorkflowRetry.isBroken
    breakReason,  \* WorkflowRetry.breakReason
    runs,         \* per execute() call: its position, locals, context and result
    obs,          \* per execute() call: what an observer of the call has seen
    caller        \* the code around the workflow: execute() calls still to make,
                  \* whether they overlap, whether step bodies write to the context,
                  \* the attempts options it passed (when it remembers them),
                  \* whether its bodies and hooks settle in all ways or in a few,
                  \* whether it called execute() on a workflow broken by a pending call

VARIABLES
    releaser,     \* a MessagesReleaser: its _separator and its _messages
    released      \* what a user of the releaser has handed to it and got from it

vars == <<attempts, hooks, actions, isBroken, breakReason, runs, obs, caller,
          releaser, released>>

\* how the bodies and the hooks of the workflow at hand may settle
BodyMay == IF caller.outcomes = "few" THEN BodyOutcomes \cap FewOutcomes ELSE BodyOutcomes
HookMay == IF caller.outcomes = "few" THEN HookOutcomes \cap FewOutcomes ELSE HookOutcomes

\* --------------------------------------------------------------- helpers
IsError(x) == x \in Errors \/ x = WorkflowBreakError

EmptyMap == [n \in {} |-> None]
MapSet_KeepFirst(f, k, v) ==
    [x \in (DOMAIN f) \cup {k} |-> IF x \in DOMAIN f THEN f[x] ELSE v]
\* Map.set(k, v)
MapSet(f, k, v) == [x \in (DOMAIN f) \cup {k} |-> IF x = k THEN v ELSE f[x]]
Count(f, k) == IF k \in DOMAIN f THEN f[k] ELSE 0

\* new WorkflowContext(workflow)
NewContext ==
    [resultsByName |-> EmptyMap, resultsByIndex |-> <<>>,
     currentAttempt |-> 0, currentActionName |-> ""]

\* new WorkflowResult()
NewResult ==
    [resultsByName |-> EmptyMap, resultsByIndex |-> <<>>,
     failuresByAction |-> EmptyMap]

AddResult_Prepend(store, name, result) ==
    [store EXCEPT !.resultsByName = MapSet(@, name, result),
                  !.resultsByIndex = <<result>> \o @]

\* WorkflowContext.addResult / WorkflowResult.addResult
AddResult(store, name, result) ==
    [store EXCEPT !.resultsByName = MapSet(@, name, result),
                  !.resultsByIndex = Append(@, result)]

\* WorkflowResult.addFailure(name, attempt, reason)
AddFailure(store, name, attempt, reason) ==
    LET ofName == IF name \in DOMAIN store.failuresByAction
                    THEN store.failuresByAction[name] ELSE EmptyMap
    IN [store EXCEPT !.failuresByAction = MapSet(@, name, MapSet(ofName, attempt, reason))]

NewAction_ZeroKept(name, att, hk) ==
    [name |-> name, attempts |-> att, hooks |-> hk, currentAttempt |-> 0]

\* new WorkflowAction(options)
NewAction(name, att, hk) ==
    [name |-> name, attempts |-> IF att = 0 THEN 1 ELSE att, hooks |-> hk,
     currentAttempt |-> 0]

IdleRun ==
    [pc |-> "idle", attempt |-> 0, idx |-> 0, actAttempt |-> 0,
     error |-> None, value |-> None,
     context |-> NewContext, workflowResult |-> NewResult,
     outcome |-> None, rejection |-> None, returned |-> NewResult]

ZeroSteps == [i \in 1..MaxSize |-> 0]
\* a hook is <<name, 0>> on the workflow and <<name, i>> on the i-th action
HookIds == (WorkflowHooks \X {0}) \cup (ActionHooks \X (1..MaxSize))

IdleObs ==
    [bodyCalls |-> ZeroSteps,       \* body invocations per step
     bodyFails |-> ZeroSteps,       \* ordinary throws per step
     iterCalls |-> ZeroSteps,       \* body invocations per step, current iteration
     lastRet |-> [i \in 1..MaxSize |-> None],
     lastErr |-> None, lastErrStep |-> 0,
     hookCalls |-> EmptyMap,        \* invocations per hook id, for the hooks invoked
     execBody |-> 0, execRetry |-> 0,  \* body / onRetry calls of the current Step.execute
     execIter |-> 0,                \* the iteration in which it began
     execHooks |-> <<>>,            \* the step-level hooks it has invoked, in order
     returns |-> {},                \* <<step, attempt, execBody, execRetry, execIter, iteration>>
                                    \* of every body invocation that returned
     hookArgs |-> EmptyMap,         \* the arguments of the latest invocation per hook id
     breaks |-> 0,                  \* break(reason) calls made by bodies and hooks
     bodyBreak |-> <<>>,            \* <<reason>> of a break call made by a step body
     broke |-> FALSE,               \* a break signal was raised
     lastBreak |-> <<>>,            \* <<reason>> passed to the latest break call
     hookRaises |-> 0,              \* hooks that settled by raising
     hookErrs |-> {},               \* the ordinary values hooks threw
     lastRaise |-> <<>>,            \* <<kind, value, who>> of the latest raise
     after |-> {},                  \* what was invoked after the first raise
     written |-> <<>>]              \* every <<name, value>> added to the context, in order

\* ------------------------------------------------- what an observer records
Raised(o) == o.broke \/ o.hookRaises > 0

ObsBody(o, i, att, iter) ==
    [o EXCEPT !.bodyCalls[i] = @ + 1, !.iterCalls[i] = @ + 1,
              !.execBody = IF att = 1 THEN 1 ELSE @ + 1,
              !.execRetry = IF att = 1 THEN 0 ELSE @,
              !.execIter = IF att = 1 THEN iter ELSE @,
              !.execHooks = IF att = 1 THEN <<>> ELSE @,
              !.after = IF Raised(o) THEN @ \cup {"body"} ELSE @]

ObsHook(o, h, args) ==
    [o EXCEPT !.hookCalls = MapSet(@, h, Count(@, h) + 1),
              !.hookArgs = MapSet(@, h, args),
              !.execRetry = IF h[1] = "onRetry" /\ h[2] > 0 THEN @ + 1 ELSE @,
              !.execHooks = IF h[2] > 0 THEN Append(@, h[1]) ELSE @,
              !.after = IF Raised(o)
                          THEN @ \cup {IF h[2] = 0 THEN "wf." \o h[1] ELSE h[1]}
                          ELSE @]

ObsWrite(o, name, value) == [o EXCEPT !.written = Append(@, <<name, value>>)]

\* a body or hook of run frame f settled with outcome oc; who is <<"body", i>>
\* or a hook id
ObsSettle(o, f, who, oc) ==
    LET isBody == who[1] = "body"
        i == who[2]
    IN [o EXCEPT
          !.lastRet = IF isBody /\ oc.kind = "return" THEN [@ EXCEPT ![i] = oc.val] ELSE @,
          !.returns = IF isBody /\ oc.kind = "return"
                        THEN @ \cup {<<i, f.actAttempt, o.execBody, o.execRetry,
                                       o.execIter, f.attempt>>}
                        ELSE @,
          !.bodyFails = IF isBody /\ oc.kind = "throw" THEN [@ EXCEPT ![i] = @ + 1] ELSE @,
          !.lastErr = IF isBody /\ oc.kind = "throw" THEN oc.val ELSE @,
          !.lastErrStep = IF isBody /\ oc.kind = "throw" THEN i ELSE @,
          !.breaks = IF oc.kind = "break" THEN @ + 1 ELSE @,
          !.bodyBreak = IF isBody /\ oc.kind = "break" /\ @ = <<>> THEN <<oc.val>> ELSE @,
          !.broke = @ \/ oc.kind \in {"break", "throwBreakError"},
          !.hookRaises = IF ~isBody /\ oc.kind # "return" THEN @ + 1 ELSE @,
          !.hookErrs = IF ~isBody /\ oc.kind = "throw" THEN @ \cup {oc.val} ELSE @,
          !.lastRaise = IF oc.kind # "return" THEN <<oc.kind, oc.val, who>> ELSE @]

\* ------------------------------------------------------------- the machine
\* the state one execute() call works on: the workflow object and its own frame
Machine(r) ==
    [isBroken |-> isBroken, breakReason |-> breakReason, actions |-> actions,
     run |-> runs[r], obs |-> obs[r]]

Commit(r, m) ==
    /\ isBroken' = m.isBroken
    /\ breakReason' = m.breakReason
    /\ actions' = m.actions
    /\ runs' = [runs EXCEPT ![r] = m.run]
    /\ obs' = [obs EXCEPT ![r] = m.obs]
    /\ UNCHANGED <<attempts, hooks, releaser, released>>

Break_ReasonLost(m, reason) ==
    [m EXCEPT !.isBroken = TRUE,
              !.obs.lastBreak = <<reason>>, !.obs.broke = TRUE]

\* WorkflowRetry.break(reason): record, then throw new WorkflowBreakError()
\* (the throw is the caller's continuation)
Break(m, reason) ==
    [m EXCEPT !.isBroken = TRUE, !.breakReason = reason,
              !.obs.lastBreak = <<reason>>, !.obs.broke = TRUE]

Effect_Unrecorded(m, oc) == m

\* the effect a settling body or hook had on the workflow, and what it threw
Effect(m, oc) == IF oc.kind = "break" THEN Break(m, oc.val) ELSE m
ThrownBy(oc) == IF oc.kind = "throw" THEN oc.val ELSE WorkflowBreakError

\* execute() settles
Resolve(m) ==
    [m EXCEPT !.run.pc = "done", !.run.outcome = "resolved",
              !.run.returned = m.run.workflowResult]
Reject(m, x) ==
    [m EXCEPT !.run.pc = "done", !.run.outcome = "rejected", !.run.rejection = x]

\* an awaited hook is called; the frame keeps the pending error / value
CallHook(m, pc, h, args) ==
    [m EXCEPT !.run.pc = pc, !.obs = ObsHook(@, h, args)]

HookFailed_KeepReason(m, thrown) == Break(m, m.breakReason)

\* the catch block around every hook but onBreak and the workflow's onFailed:
\*   if (error instanceof WorkflowBreakError) break(getBreakReason()) else break(error)
HookFailed(m, thrown) ==
    IF thrown = WorkflowBreakError
      THEN Break(m, m.breakReason)
      ELSE Break(m, thrown)

\* the inner catch of onBreak and of the workflow's onFailed
InnerCatch(m, thrown) ==
    IF thrown = WorkflowBreakError /\ IsError(m.breakReason)
      THEN Reject(m, m.breakReason)
      ELSE Reject(m, thrown)

ExecuteCatchRest_OwnReason(m, error) ==
    IF error = WorkflowBreakError /\ m.obs.lastBreak # <<>> /\ IsError(m.obs.lastBreak[1])
      THEN Reject(m, m.obs.lastBreak[1])
      ELSE IF "onFailed" \in hooks /\ error # WorkflowBreakError
        THEN CallHook([m EXCEPT !.run.error = error], "wfOnFailed",
                      <<"onFailed", 0>>, <<error>>)
        ELSE Reject(m, error)

ExecuteCatchRest_FailedToo(m, error) ==
    IF error = WorkflowBreakError /\ IsError(m.breakReason)
      THEN Reject(m, m.breakReason)
      ELSE IF "onFailed" \in hooks
        THEN CallHook([m EXCEPT !.run.error = error], "wfOnFailed",
                      <<"onFailed", 0>>, <<error>>)
        ELSE Reject(m, error)

\* WorkflowRetry.execute, catch block from line 796 on
ExecuteCatchRest(m, error) ==
    IF error = WorkflowBreakError /\ IsError(m.breakReason)
      THEN Reject(m, m.breakReason)
      ELSE IF "onFailed" \in hooks /\ error # WorkflowBreakError
        THEN CallHook([m EXCEPT !.run.error = error], "wfOnFailed",
                      <<"onFailed", 0>>, <<error>>)
        ELSE Reject(m, error)

ExecuteCatch_NoReason(m, error) ==
    IF "onBreak" \in hooks /\ error = WorkflowBreakError
      THEN CallHook([m EXCEPT !.run.error = error], "wfOnBreak",
                    <<"onBreak", 0>>, <<"undefined", m.run.context>>)
      ELSE ExecuteCatchRest(m, error)

\* WorkflowRetry.execute, catch block
ExecuteCatch(m, error) ==
    IF "onBreak" \in hooks /\ error = WorkflowBreakError
      THEN CallHook([m EXCEPT !.run.error = error], "wfOnBreak",
                    <<"onBreak", 0>>, <<m.breakReason, m.run.context>>)
      ELSE ExecuteCatchRest(m, error)

InvokeBody_AttemptUnset(m, att) ==
    LET i == m.run.idx
    IN [m EXCEPT !.run.actAttempt = att,
                 !.run.pc = "body",
                 !.obs = ObsBody(@, i, att, m.run.attempt)]

InvokeBody_StepAttempt(m, att) ==
    LET i == m.run.idx
    IN [m EXCEPT !.actions[i].currentAttempt = att,
                 !.run.actAttempt = att,
                 !.run.context.currentAttempt = att,
                 !.run.pc = "body",
                 !.obs = ObsBody(@, i, att, m.run.attempt)]

\* WorkflowAction.retry: one pass of the loop body up to `await fn()`
InvokeBody(m, att) ==
    LET i == m.run.idx
    IN [m EXCEPT !.actions[i].currentAttempt = att,
                 !.run.actAttempt = att,
                 !.run.pc = "body",
                 !.obs = ObsBody(@, i, att, m.run.attempt)]

\* after the steps of an iteration: workflow onSuccess, then return workflowResult
AllActionsDone(m) ==
    IF "onSuccess" \in hooks
      THEN CallHook(m, "wfOnSuccess", <<"onSuccess", 0>>, <<>>)
      ELSE Resolve(m)

NextAction_Unnamed(m, i) ==
    IF i <= Len(m.actions)
      THEN InvokeBody([m EXCEPT !.run.idx = i], 1)
      ELSE AllActionsDone([m EXCEPT !.run.idx = i])

\* the for-of loop of WorkflowRetry.execute at position i
NextAction(m, i) ==
    IF i <= Len(m.actions)
      THEN InvokeBody([m EXCEPT !.run.idx = i,
                                !.run.context.currentActionName = m.actions[i].name], 1)
      ELSE AllActionsDone([m EXCEPT !.run.idx = i])

StartIteration_Resume(m, att) ==
    NextAction([m EXCEPT !.run.attempt = att,
                         !.run.context.currentAttempt = att,
                         !.run.workflowResult = NewResult,
                         !.obs.iterCalls = ZeroSteps],
               IF m.run.idx = 0 THEN 1 ELSE m.run.idx)

StartIteration_KeepResult(m, att) ==
    NextAction([m EXCEPT !.run.attempt = att,
                         !.run.context.currentAttempt = att,
                         !.obs.iterCalls = ZeroSteps], 1)

StartIteration_FreshContext(m, att) ==
    NextAction([m EXCEPT !.run.attempt = att,
                         !.run.context = [NewContext EXCEPT !.currentAttempt = att],
                         !.run.workflowResult = NewResult,
                         !.obs.iterCalls = ZeroSteps], 1)

\* WorkflowRetry.retry: one pass of the loop body up to the first awaited call
StartIteration(m, att) ==
    NextAction([m EXCEPT !.run.attempt = att,
                         !.run.context.currentAttempt = att,
                         !.run.workflowResult = NewResult,
                         !.obs.iterCalls = ZeroSteps], 1)

\* WorkflowRetry.retry, catch block after the onRetry hook
WorkflowCatchRest(m, error) ==
    IF m.run.attempt = attempts
      THEN ExecuteCatch(m, error)
      ELSE StartIteration(m, m.run.attempt + 1)

WorkflowCatch_RetryAfterLast(m, error) ==
    IF "onRetry" \in hooks
      THEN CallHook([m EXCEPT !.run.error = error], "wfOnRetry",
                    <<"onRetry", 0>>, <<error>>)
      ELSE WorkflowCatchRest(m, error)

\* WorkflowRetry.retry, catch block for an ordinary error
WorkflowCatch(m, error) ==
    IF m.run.attempt < attempts /\ "onRetry" \in hooks
      THEN CallHook([m EXCEPT !.run.error = error], "wfOnRetry",
                    <<"onRetry", 0>>, <<error>>)
      ELSE WorkflowCatchRest(m, error)

ActionFailed_Generic(m, error) ==
    LET i == m.run.idx
        generic == "Error: Failed to execute action"
    IN IF "onFailed" \in m.actions[i].hooks
         THEN CallHook([m EXCEPT !.run.error = generic], "actOnFailed",
                       <<"onFailed", i>>, <<m.actions[i].currentAttempt, generic>>)
         ELSE WorkflowCatch(m, generic)

\* WorkflowAction.execute, catch block for an ordinary error
ActionFailed(m, error) ==
    LET i == m.run.idx
    IN IF "onFailed" \in m.actions[i].hooks
         THEN CallHook([m EXCEPT !.run.error = error], "actOnFailed",
                       <<"onFailed", i>>, <<m.actions[i].currentAttempt, error>>)
         ELSE WorkflowCatch(m, error)

ActionCatchRest_BudgetSpent(m, error) ==
    IF m.obs.bodyCalls[m.run.idx] >= m.actions[m.run.idx].attempts
      THEN ActionFailed(m, error)
      ELSE InvokeBody(m, m.run.actAttempt + 1)

\* WorkflowAction.retry, catch block after the onRetry hook
ActionCatchRest(m, error) ==
    IF m.run.actAttempt = m.actions[m.run.idx].attempts
      THEN ActionFailed(m, error)
      ELSE InvokeBody(m, m.run.actAttempt + 1)

ActionCatch_SkipLast(m, error) ==
    LET i == m.run.idx
    IN IF m.run.actAttempt < m.actions[i].attempts - 1 /\ "onRetry" \in m.actions[i].hooks
         THEN CallHook([m EXCEPT !.run.error = error], "actOnRetry",
                       <<"onRetry", i>>, <<m.actions[i].currentAttempt, error>>)
         ELSE ActionCatchRest(m, error)

ActionCatch_Ledger(m, error) ==
    LET i == m.run.idx
        led == [m EXCEPT !.run.workflowResult =
                           AddFailure(@, m.actions[i].name, m.run.actAttempt, error)]
    IN IF m.run.actAttempt < m.actions[i].attempts /\ "onRetry" \in m.actions[i].hooks
         THEN CallHook([led EXCEPT !.run.error = error], "actOnRetry",
                       <<"onRetry", i>>, <<m.actions[i].currentAttempt, error>>)
         ELSE ActionCatchRest(led, error)

\* WorkflowAction.retry, catch block for an ordinary error
ActionCatch(m, error) ==
    LET i == m.run.idx
    IN IF m.run.actAttempt < m.actions[i].attempts /\ "onRetry" \in m.actions[i].hooks
         THEN CallHook([m EXCEPT !.run.error = error], "actOnRetry",
                       <<"onRetry", i>>, <<m.actions[i].currentAttempt, error>>)
         ELSE ActionCatchRest(m, error)

\* action.execute(context) returned: store the result twice, go on with the loop
ActionReturned(m, result) ==
    LET name == m.actions[m.run.idx].name
    IN NextAction([m EXCEPT !.run.workflowResult = AddResult(@, name, result),
                            !.run.context = AddResult(@, name, result),
                            !.obs = ObsWrite(@, name, result)],
                  m.run.idx + 1)

BodyReturned_StoredFirst(m, result) ==
    LET i == m.run.idx
        name == m.actions[i].name
    IN IF "onSuccess" \in m.actions[i].hooks
         THEN CallHook([m EXCEPT !.run.value = result,
                                 !.run.workflowResult = AddResult(@, name, result),
                                 !.run.context = AddResult(@, name, result)],
                       "actOnSuccess",
                       <<"onSuccess", i>>, <<m.actions[i].currentAttempt, result>>)
         ELSE ActionReturned(m, result)

\* the function WorkflowAction.execute hands to retry, after the body returned
BodyReturned(m, result) ==
    LET i == m.run.idx
    IN IF "onSuccess" \in m.actions[i].hooks
         THEN CallHook([m EXCEPT !.run.value = result], "actOnSuccess",
                       <<"onSuccess", i>>, <<m.actions[i].currentAttempt, result>>)
         ELSE ActionReturned(m, result)

PropagateBreak_Retried(m) == WorkflowCatch(m, WorkflowBreakError)

\* a WorkflowBreakError leaves both retry loops (lines 198-200, 254-256, 720-722)
PropagateBreak(m) == ExecuteCatch(m, WorkflowBreakError)

\* ------------------------------------------------------------------ actions
\* a step body called context.addResult(w[1], w[2]), or nothing when w is <<>>
ContextWritten(m, w) ==
    IF w = <<>>
      THEN m
      ELSE [m EXCEPT !.run.context = AddResult(@, w[1], w[2]),
                     !.obs = ObsWrite(@, w[1], w[2])]

\* a settled body or hook, as the observer and the workflow see it
Settled(m, who, oc) ==
    Effect([m EXCEPT !.obs = ObsSettle(@, m.run, who, oc)], oc)

\* wasBroken() is true as execute() is called, a pending call having made a
\* break call
FoundBroken ==
    /\ isBroken
    /\ \E q \in RunIds : runs[q].pc \notin {"idle", "done"} /\ obs[q].lastBreak # <<>>

Execute_NoReset(r) ==
    /\ runs[r].pc = "idle"
    /\ caller.calls > 0
    /\ \A q \in RunIds : q < r => runs[q].pc # "idle"
    /\ caller.overlap \/ \A q \in RunIds : runs[q].pc \in {"idle", "done"}
    /\ caller' = [caller EXCEPT !.calls = @ - 1,
                                !.foundBroken = @ \/ FoundBroken]
    /\ Commit(r, StartIteration([Machine(r) EXCEPT
                   !.run.context = IF r > 1 THEN runs[r - 1].context ELSE NewContext], 1))

Execute_ReasonCleared(r) ==
    /\ runs[r].pc = "idle"
    /\ caller.calls > 0
    /\ \A q \in RunIds : q < r => runs[q].pc # "idle"
    /\ caller.overlap \/ \A q \in RunIds : runs[q].pc \in {"idle", "done"}
    /\ caller' = [caller EXCEPT !.calls = @ - 1,
                                !.foundBroken = @ \/ FoundBroken]
    /\ Commit(r, StartIteration([Machine(r) EXCEPT !.isBroken = FALSE,
                                                   !.breakReason = "undefined",
                                                   !.run.context = NewContext], 1))

\* the caller calls execute(): lines 757-761, then the first iteration
Execute(r) ==
    /\ runs[r].pc = "idle"
    /\ caller.calls > 0
    /\ \A q \in RunIds : q < r => runs[q].pc # "idle"
    /\ caller.overlap \/ \A q \in RunIds : runs[q].pc \in {"idle", "done"}
    /\ caller' = [caller EXCEPT !.calls = @ - 1,
                                !.foundBroken = @ \/ FoundBroken]
    /\ Commit(r, StartIteration([Machine(r) EXCEPT !.isBroken = FALSE,
                                                   !.run.context = NewContext], 1))

\* `await this.action(context)` settles
BodySettles(r) ==
    /\ runs[r].pc = "body"
    /\ \E oc \in BodyMay, w \in ContextWrites :
         /\ w # <<>> => caller.writes
         /\ LET m == Settled(ContextWritten(Machine(r), w), <<"body", runs[r].idx>>, oc)
            IN Commit(r, CASE oc.kind = "return" -> BodyReturned(m, oc.val)
                           [] oc.kind = "throw" -> ActionCatch(m, oc.val)
                           [] OTHER -> PropagateBreak(m))
    /\ UNCHANGED caller

\* `await this.onSuccess(this.currentAttempt, result, context)` settles
ActionOnSuccessSettles(r) ==
    /\ runs[r].pc = "actOnSuccess"
    /\ \E oc \in HookMay :
         LET m == Settled(Machine(r), <<"onSuccess", runs[r].idx>>, oc)
         IN Commit(r, IF oc.kind = "return"
                        THEN ActionReturned(m, m.run.value)
                        ELSE PropagateBreak(HookFailed(m, ThrownBy(oc))))
    /\ UNCHANGED caller

\* `await this.onRetry(this.currentAttempt, error, context)` settles
ActionOnRetrySettles(r) ==
    /\ runs[r].pc = "actOnRetry"
    /\ \E oc \in HookMay :
         LET m == Settled(Machine(r), <<"onRetry", runs[r].idx>>, oc)
         IN Commit(r, IF oc.kind = "return"
                        THEN ActionCatchRest(m, m.run.error)
                        ELSE PropagateBreak(HookFailed(m, ThrownBy(oc))))
    /\ UNCHANGED caller

\* `await this.onFailed(this.currentAttempt, error, context)` settles
ActionOnFailedSettles(r) ==
    /\ runs[r].pc = "actOnFailed"
    /\ \E oc \in HookMay :
         LET m == Settled(Machine(r), <<"onFailed", runs[r].idx>>, oc)
         IN Commit(r, IF oc.kind = "return"
                        THEN WorkflowCatch(m, m.run.error)
                        ELSE PropagateBreak(HookFailed(m, ThrownBy(oc))))
    /\ UNCHANGED caller

\* the workflow's `await this.onRetry(error, context)` settles
WorkflowOnRetrySettles(r) ==
    /\ runs[r].pc = "wfOnRetry"
    /\ \E oc \in HookMay :
         LET m == Settled(Machine(r), <<"onRetry", 0>>, oc)
         IN Commit(r, IF oc.kind = "return"
                        THEN WorkflowCatchRest(m, m.run.error)
                        ELSE PropagateBreak(HookFailed(m, ThrownBy(oc))))
    /\ UNCHANGED caller

\* the workflow's `await this.onSuccess(context)` settles
WorkflowOnSuccessSettles(r) ==
    /\ runs[r].pc = "wfOnSuccess"
    /\ \E oc \in HookMay :
         LET m == Settled(Machine(r), <<"onSuccess", 0>>, oc)
         IN Commit(r, IF oc.kind = "return"
                        THEN Resolve(m)
                        ELSE PropagateBreak(HookFailed(m, ThrownBy(oc))))
    /\ UNCHANGED caller

\* `await this.onBreak(this.breakReason, context)` settles
WorkflowOnBreakSettles(r) ==
    /\ runs[r].pc = "wfOnBreak"
    /\ \E oc \in HookMay :
         LET m == Settled(Machine(r), <<"onBreak", 0>>, oc)
         IN Commit(r, IF oc.kind = "return"
                        THEN ExecuteCatchRest(m, m.run.error)
                        ELSE InnerCatch(m, ThrownBy(oc)))
    /\ UNCHANGED caller

\* the workflow's `await this.onFailed(error, context)` settles
WorkflowOnFailedSettles(r) ==
    /\ runs[r].pc = "wfOnFailed"
    /\ \E oc \in HookMay :
         LET m == Settled(Machine(r), <<"onFailed", 0>>, oc)
         IN Commit(r, IF oc.kind = "return"
                        THEN Reject(m, m.run.error)
                        ELSE InnerCatch(m, ThrownBy(oc)))
    /\ UNCHANGED caller

\* -------------------------------------------------------- MessagesReleaser
\* the strings handed to a releaser: messages, '' among them, and separators
Messages == {"", "m1", "m2"}
\* opts.separator: not given, '' or a string
Separators == {None, "", ", "}
\* the arguments of one add(...msgs) call
AddArguments == {<<>>} \cup {<<x>> : x \in Messages} \cup (Messages \X Messages)
\* the argument of one release(lastMessage?) call
LastMessages == {None} \cup Messages

\* JavaScript's truthiness of an optional string
Truthy(x) == x # None /\ x # ""

\* new MessagesReleaser({separator})
NewReleaser(separator) ==
    [separator |-> IF Truthy(separator) THEN separator ELSE "\n", messages |-> <<>>]

\* Array.prototype.join(separator)
RECURSIVE Join(_, _)
Join(msgs, separator) ==
    IF msgs = <<>> THEN ""
    ELSE IF Len(msgs) = 1 THEN msgs[1]
    ELSE msgs[1] \o separator \o Join(Tail(msgs), separator)

\* this._messages.push(...msgs)
Pushed(rel, msgs) == [rel EXCEPT !.messages = @ \o msgs]

Message_SeparatorLast(rel) ==
    IF Len(rel.messages) > 0
      THEN Join(rel.messages, rel.separator) \o rel.separator
      ELSE ""

\* the string release() builds from the buffer
Message(rel) ==
    IF Len(rel.messages) > 0
      THEN rel.separator \o Join(rel.messages, rel.separator)
      ELSE ""

\* reset()
Reset(rel) == [rel EXCEPT !.messages = <<>>]

\* nothing handed to the releaser yet, nothing released
IdleReleased == [added |-> <<>>, batch |-> <<>>, returned |-> None, last |-> "new"]

WorkflowUntouched ==
    UNCHANGED <<attempts, hooks, actions, isBroken, breakReason, runs, obs, caller>>

\* add(...msgs)
Add(msgs) ==
    /\ Len(releaser.messages) + Len(msgs) <= MaxMessages
    /\ releaser' = Pushed(releaser, msgs)
    /\ released' = [released EXCEPT !.added = @ \o msgs, !.last = "add"]
    /\ WorkflowUntouched

\* release(lastMessage)
Release(lastMessage) ==
    LET rel == IF Truthy(lastMessage) THEN Pushed(releaser, <<lastMessage>>) ELSE releaser
        given == IF Truthy(lastMessage) THEN <<lastMessage>> ELSE <<>>
    IN /\ Len(rel.messages) <= MaxMessages
       /\ releaser' = Reset(rel)
       /\ released' = [added |-> <<>>, batch |-> released.added \o given,
                       returned |-> Message(rel), last |-> "release"]
       /\ WorkflowUntouched

\* no MessagesReleaser is in use
NoReleaser == releaser = NewReleaser(None) /\ released = IdleReleased

\* ------------------------------------------------------------ construction
\* `options.attempts || 1`
OrOne(n) == IF n = 0 THEN 1 ELSE n

\* the sequences of addAction(options) calls a builder may make when the
\* workflow's own attempts are w and size `budget` is left for the actions
RECURSIVE AddActionCalls(_, _)
AddActionCalls(w, budget) ==
    {<<>>} \cup
    UNION {
        {<<o>> \o rest :
            rest \in AddActionCalls(w, budget - w * OrOne(o.attempts) - Cardinality(o.hooks))} :
        o \in {x \in [name : Names, attempts : 0..budget, hooks : SUBSET ActionHooks] :
                 w * OrOne(x.attempts) + Cardinality(x.hooks) <= budget}}

\* the workflow after new WorkflowRetry({attempts: a, <the hooks hk>}) and
\* addAction(opts[1]), addAction(opts[2]), ...; execute() not called yet
Built(a, hk, opts) ==
    /\ attempts = OrOne(a)
    /\ hooks = hk
    /\ actions = [i \in 1..Len(opts) |->
                    NewAction(opts[i].name, opts[i].attempts, opts[i].hooks)]
    /\ isBroken = FALSE
    /\ breakReason = "undefined"
    /\ runs = [r \in RunIds |-> IdleRun]
    /\ obs = [r \in RunIds |-> IdleObs]

\* a workflow of at most the given size on which execute() has not been called
Constructed(size) ==
    /\ \E a \in 0..size, hk \in SUBSET WorkflowHooks :
         \E opts \in AddActionCalls(OrOne(a), size - Cardinality(hk)) :
             Built(a, hk, opts)
    /\ NoReleaser

\* the code around the workflow, before its first execute() call
Caller(calls, overlap, writes, outcomes, options) ==
    [calls |-> calls, overlap |-> overlap, writes |-> writes, outcomes |-> outcomes,
     options |-> options, foundBroken |-> FALSE]

\* one execute() call on a workflow whose step bodies leave the context alone
Init ==
    /\ Constructed(MaxSize)
    /\ caller = Caller(1, FALSE, FALSE, "all", <<>>)

\* one execute() call on a workflow whose step bodies may write to the context
InitContext ==
    /\ Constructed(MaxWriteSize)
    /\ caller = Caller(1, FALSE, TRUE, "all", <<>>)

\* one execute() call on a workflow whose builder remembers the attempts
\* options it passed: <<the workflow's, <<each action's>>>>
InitOptions ==
    /\ \E a \in 0..MaxOptionsSize, hk \in SUBSET WorkflowHooks :
         \E opts \in AddActionCalls(OrOne(a), MaxOptionsSize - Cardinality(hk)) :
             /\ Built(a, hk, opts)
             /\ caller = Caller(1, FALSE, FALSE, "all",
                                <<a, [i \in 1..Len(opts) |-> opts[i].attempts]>>)
    /\ NoReleaser

\* execute() called again and again on one workflow, each call after the
\* previous one has settled
InitReuse ==
    /\ Constructed(MaxReuseSize)
    /\ caller = Caller(2, FALSE, FALSE, "few", <<>>)

\* execute() called on one workflow while earlier calls are still pending
InitOverlap ==
    /\ Constructed(MaxOverlapSize)
    /\ caller = Caller(2, TRUE, FALSE, "few", <<>>)

\* a new MessagesReleaser, beside a workflow that is never executed
InitReleaser ==
    /\ Built(0, {}, <<>>)
    /\ caller = Caller(0, FALSE, FALSE, "all", <<>>)
    /\ \E separator \in Separators : releaser = NewReleaser(separator)
    /\ released = IdleReleased

NextReleaser ==
    \/ \E msgs \in AddArguments : Add(msgs)
    \/ \E lastMessage \in LastMessages : Release(lastMessage)

Next ==
    \E r \in RunIds :
        \/ Execute(r)
        \/ BodySettles(r)
        \/ ActionOnSuccessSettles(r)
        \/ ActionOnRetrySettles(r)
        \/ ActionOnFailedSettles(r)
        \/ WorkflowOnRetrySettles(r)
        \/ WorkflowOnSuccessSettles(r)
        \/ WorkflowOnBreakSettles(r)
        \/ WorkflowOnFailedSettles(r)

Spec == Init /\ [][Next]_vars
SpecContext == InitContext /\ [][Next]_vars
SpecOptions == InitOptions /\ [][Next]_vars
SpecReuse == InitReuse /\ [][Next]_vars
SpecOverlap == InitOverlap /\ [][Next]_vars
SpecReleaser == InitReleaser /\ [][NextReleaser]_vars

\* ------------------------------------------------------------------ queries
\* WorkflowResult.getResult(name) / WorkflowContext.getResultByName(name)
NoResult == "Error: No result available"
GetResult(store, name) ==
    IF name \in DOMAIN store.resultsByName THEN store.resultsByName[name] ELSE NoResult

\* WorkflowResult.getAllResults() / WorkflowContext.getAllResults()
GetAllResults(store) == store.resultsByIndex

\* WorkflowContext.getAttempt()
GetAttempt(context) == context.currentAttempt

\* WorkflowContext.getActionName()
GetActionName(context) == context.currentActionName

\* WorkflowResult.getResultCount()
GetResultCount(store) == Len(store.resultsByIndex)

\* WorkflowResult.hasFailure(name, attempt)
HasFailure(store, name, attempt) ==
    /\ name \in DOMAIN store.failuresByAction
    /\ attempt \in DOMAIN store.failuresByAction[name]

\* WorkflowResult.getFailedActions(): the names the ledger has an entry for
GetFailedActions(store) == DOMAIN store.failuresByAction

\* WorkflowResult.getAllFailures()
GetAllFailures(store) == store.failuresByAction

\* WorkflowRetry.wasBroken() and getBreakReason()
WasBroken == isBroken
GetBreakReason == breakReason

Done(r) == runs[r].pc = "done"
Resolved(r) == Done(r) /\ runs[r].outcome = "resolved"
Rejected(r) == Done(r) /\ runs[r].outcome = "rejected"
Steps == 1..Len(actions)
\* the last registered step with the name of step i
LastNamed(i) ==
    CHOOSE j \in Steps : /\ actions[j].name = actions[i].name
                         /\ \A k \in Steps : actions[k].name = actions[i].name => k <= j
\* what execute() rejects with when a break with this recorded reason ends it
BreakRejection(reason) == IF reason \in Errors THEN reason ELSE WorkflowBreakError

\* ---------------------------------------------------------------- claim C1
\* C1: when every step body of a run succeeds on its first call (and no hook
\* raises), execute() returns a WorkflowResult whose getAllResults() lists
\* the N results in registration order and whose getResult(name) is, for
\* every registered name, the result of the step registered under it (the
\* later one when two steps share the name).
C1_ResultsInOrder ==
    \A r \in RunIds :
        Done(r) =>
          /\ ((\A i \in Steps : obs[r].bodyFails[i] = 0) /\ ~Raised(obs[r])) => Resolved(r)
          /\ (Resolved(r) /\ \A i \in Steps : obs[r].bodyCalls[i] = 1) =>
               /\ GetAllResults(runs[r].returned) = [i \in Steps |-> obs[r].lastRet[i]]
               /\ \A i \in Steps :
                    GetResult(runs[r].returned, actions[i].name) = obs[r].lastRet[LastNamed(i)]

C1_Witness ==
    \E r \in RunIds :
        /\ Resolved(r)
        /\ Len(actions) = 3
        /\ \A i \in Steps : obs[r].bodyCalls[i] = 1
        /\ actions[1].name # actions[2].name
        /\ obs[r].lastRet[1] # obs[r].lastRet[2]

\* ---------------------------------------------------------------- claim C2
\* what was invoked after the first raise of run r is at most the onBreak hook
OnlyOnBreakAfter(r) == obs[r].after \subseteq {"wf.onBreak"}

\* C2 as stated: once a step body has called break(reason), no further body
\* runs and nothing is retried, and execute() rejects with reason when it is
\* an Error and with the interruption error otherwise, after which
\* wasBroken() is true and getBreakReason() is reason.
C2_Original ==
    \A r \in RunIds :
        obs[r].bodyBreak # <<>> =>
          /\ OnlyOnBreakAfter(r)
          /\ Done(r) =>
               /\ Rejected(r)
               /\ runs[r].rejection = BreakRejection(obs[r].bodyBreak[1])
               /\ WasBroken
               /\ GetBreakReason = obs[r].bodyBreak[1]

\* C2: once a step body has called break(reason), no further body runs and
\* nothing is retried at either level; and when the onBreak hook is absent
\* or completes normally, execute() rejects with reason when it is an Error
\* and with the interruption error otherwise, after which wasBroken() is
\* true and getBreakReason() is reason.
C2_BodyBreakHalts ==
    \A r \in RunIds :
        obs[r].bodyBreak # <<>> =>
          /\ OnlyOnBreakAfter(r)
          /\ (Done(r) /\ obs[r].hookRaises = 0) =>
               /\ Rejected(r)
               /\ runs[r].rejection = BreakRejection(obs[r].bodyBreak[1])
               /\ WasBroken
               /\ GetBreakReason = obs[r].bodyBreak[1]

C2_Witness ==
    \E r \in RunIds :
        /\ Done(r)
        /\ obs[r].bodyBreak # <<>>
        /\ obs[r].bodyBreak[1] \in Errors
        /\ attempts = 2
        /\ Len(actions) = 2
        /\ runs[r].idx = 1
        /\ runs[r].attempt = 1
        /\ obs[r].bodyCalls = [ZeroSteps EXCEPT ![1] = 1]
        /\ obs[r].hookRaises = 0

\* ---------------------------------------------------------------- claim C3
\* C3: after a break signal has been raised in a run, by a step body or by
\* any hook, no step body is invoked again and no onRetry or onFailed hook
\* of either level is invoked: the onBreak hook is all that may still run.
C3_BreakNeverRetried ==
    \A r \in RunIds : obs[r].broke => OnlyOnBreakAfter(r)

C3_Witness ==
    \E r \in RunIds :
        /\ Done(r)
        /\ obs[r].broke
        /\ obs[r].lastRaise = <<"break", "stop", <<"onRetry", 0>>>>
        /\ runs[r].attempt < attempts
        /\ obs[r].after = {"wf.onBreak"}

\* ---------------------------------------------------------------- claim C4
InAction(r) == runs[r].pc \in {"body", "actOnSuccess", "actOnRetry", "actOnFailed"}

\* C4: an iteration always runs the sequence from the first registered step:
\* while step idx is at work, every step before it has run and stored its
\* result in this iteration and no step after it has run in it, whatever
\* succeeded in earlier iterations; there are at most `attempts` iterations,
\* and a run that fails with an ordinary error has used them all.  With one
\* step of budget 1 that fails f < attempts times and then succeeds, the
\* body is invoked exactly f + 1 times and execute() resolves.
C4_WholeSequenceRerun ==
    \A r \in RunIds :
        /\ runs[r].attempt <= attempts
        /\ (runs[r].pc # "idle" /\ Len(actions) >= 1) =>
             /\ obs[r].iterCalls[1] >= 1
             /\ obs[r].bodyCalls[1] >= runs[r].attempt
        /\ InAction(r) =>
             /\ Len(runs[r].workflowResult.resultsByIndex) = runs[r].idx - 1
             /\ \A j \in Steps : (j <= runs[r].idx) <=> (obs[r].iterCalls[j] >= 1)
        /\ (Rejected(r) /\ ~Raised(obs[r])) => runs[r].attempt = attempts
        /\ (Done(r) /\ ~Raised(obs[r]) /\ Len(actions) = 1 /\ actions[1].attempts = 1) =>
             IF obs[r].bodyFails[1] < attempts
               THEN Resolved(r) /\ obs[r].bodyCalls[1] = obs[r].bodyFails[1] + 1
               ELSE Rejected(r) /\ obs[r].bodyCalls[1] = attempts

C4_Witness ==
    \E r \in RunIds :
        /\ runs[r].pc = "body"
        /\ runs[r].attempt = 2
        /\ runs[r].idx = 1
        /\ Len(actions) = 2
        /\ obs[r].lastRet[1] # None
        /\ obs[r].lastErrStep = 2

\* ---------------------------------------------------------------- claim C5
\* C5: when a step's body returns on attempt a of one Step.execute call
\* (having failed on attempts 1..a-1), the body has been invoked exactly a
\* times in that call and the step's onRetry hook, if registered, exactly
\* a - 1 times, each time with the number and the error of the attempt
\* that just failed and never after the last permitted attempt; and the
\* workflow did not start a new iteration in between.
C5_StepRetryCounts ==
    \A r \in RunIds :
        /\ \A t \in obs[r].returns :
             /\ t[2] <= actions[t[1]].attempts
             /\ t[3] = t[2]
             /\ t[4] = IF "onRetry" \in actions[t[1]].hooks THEN t[2] - 1 ELSE 0
             /\ t[5] = t[6]
        /\ runs[r].pc = "actOnRetry" =>
             /\ runs[r].actAttempt < actions[runs[r].idx].attempts
             /\ obs[r].hookArgs[<<"onRetry", runs[r].idx>>]
                  = <<runs[r].actAttempt, obs[r].lastErr>>

C5_Witness ==
    \E r \in RunIds :
        \E t \in obs[r].returns :
            /\ t[2] = 3
            /\ actions[t[1]].attempts = 3
            /\ t[3] = 3
            /\ t[4] = 2

\* ---------------------------------------------------------------- claim C6
\* execute() rejected although no break signal was raised and no hook raised
ExhaustedQuietly(r) == Rejected(r) /\ ~Raised(obs[r])

\* the rejection is the error of the last failing body invocation, which was
\* the final attempt of its step in the final iteration
RejectsWithLastBodyError(r) ==
    /\ runs[r].rejection = obs[r].lastErr
    /\ runs[r].idx = obs[r].lastErrStep
    /\ runs[r].actAttempt = actions[runs[r].idx].attempts
    /\ runs[r].attempt = attempts

\* C6 as stated: without break or raising hook, an exhausted run rejects
\* with exactly the error of the last failing body invocation, and the steps
\* registered after the failing step are never invoked.
C6_Original ==
    \A r \in RunIds :
        ExhaustedQuietly(r) =>
          /\ RejectsWithLastBodyError(r)
          /\ \A j \in Steps : j > obs[r].lastErrStep => obs[r].bodyCalls[j] = 0

\* C6: without break or raising hook, an exhausted run rejects with exactly
\* the error of the last failing body invocation, and the steps registered
\* after the failing step are not invoked in that final iteration.
C6_LastErrorUnwrapped ==
    \A r \in RunIds :
        ExhaustedQuietly(r) =>
          /\ RejectsWithLastBodyError(r)
          /\ \A j \in Steps : j > obs[r].lastErrStep => obs[r].iterCalls[j] = 0

C6_Witness ==
    \E r \in RunIds :
        /\ ExhaustedQuietly(r)
        /\ Len(actions) = 2
        /\ obs[r].lastErrStep = 1
        /\ obs[r].bodyCalls[2] = 1
        /\ obs[r].bodyFails[2] = 1

\* ---------------------------------------------------------------- claim C7
\* C7: once a hook of either level has raised an ordinary error, nothing but
\* the onBreak hook is invoked any more (the hook is not retried, no further
\* step and no further iteration runs), and after execute() has rejected
\* wasBroken() is true.
C7_HookFailureIsBreak ==
    \A r \in RunIds :
        obs[r].hookErrs # {} =>
          /\ OnlyOnBreakAfter(r)
          /\ Done(r) => Rejected(r) /\ WasBroken

\* ---------------------------------------------------------------- claim C8
\* C8 as stated: whenever a hook of either level has raised an Error
\* instance E that is not a break signal, execute() rejects with exactly E.
C8_Original ==
    \A r \in RunIds :
        Done(r) =>
          \A e \in obs[r].hookErrs \cap Errors : Rejected(r) /\ runs[r].rejection = e

\* the latest raise of run r was a hook throwing the ordinary value e
LastRaiseIsHookThrow(r, e) ==
    /\ obs[r].lastRaise # <<>>
    /\ obs[r].lastRaise[1] = "throw"
    /\ obs[r].lastRaise[2] = e
    /\ obs[r].lastRaise[3][1] # "body"

\* C8: when a hook of either level raises an Error instance E that is not a
\* break signal and no hook raises or breaks after it (the onBreak hook that
\* runs after a converted hook failure is absent or completes normally),
\* execute() rejects with exactly E.
C8_HookErrorSurfaces ==
    \A r \in RunIds :
        \A e \in Errors :
            (Done(r) /\ LastRaiseIsHookThrow(r, e)) =>
              Rejected(r) /\ runs[r].rejection = e

C8_Witness ==
    \E r \in RunIds :
        /\ Done(r)
        /\ obs[r].lastRaise = <<"throw", "E2", <<"onFailed", 1>>>>
        /\ obs[r].lastErr = "E1"
        /\ Count(obs[r].hookCalls, <<"onBreak", 0>>) = 1
        /\ runs[r].rejection = "E2"

\* ---------------------------------------------------------------- claim C9
\* C9: whenever a run in which a break signal was raised (by a body, by a
\* hook, or by the conversion of a hook failure) has ended, execute() has
\* rejected with getBreakReason() if that is an Error instance and with the
\* interruption error otherwise, never with anything else.
C9_BreakRejectsWithReason ==
    \A r \in RunIds :
        (Done(r) /\ obs[r].broke) =>
          /\ Rejected(r)
          /\ runs[r].rejection =
               IF IsError(GetBreakReason) THEN GetBreakReason ELSE WorkflowBreakError

\* --------------------------------------------------------------- claim C10
\* C10: after execute() has rejected, getBreakReason() is the reason passed
\* to the last break call made during the run, and that reason determines
\* the rejection: the reason itself if it is an Error instance, else the
\* interruption error.
C10_LastBreakWins ==
    \A r \in RunIds :
        (Done(r) /\ obs[r].lastBreak # <<>>) =>
          /\ Rejected(r)
          /\ GetBreakReason = obs[r].lastBreak[1]
          /\ runs[r].rejection = BreakRejection(obs[r].lastBreak[1])

\* the two conjuncts, apart (used to locate the divergence)
LastBreakRecorded ==
    \A r \in RunIds :
        obs[r].lastBreak # <<>> => isBroken /\ breakReason = obs[r].lastBreak[1]
OnBreakThrew(r) ==
    /\ obs[r].lastRaise # <<>>
    /\ obs[r].lastRaise[1] = "throw"
    /\ obs[r].lastRaise[3] = <<"onBreak", 0>>
BreakRejectsUnlessOnBreakThrew ==
    \A r \in RunIds :
        (Done(r) /\ obs[r].broke /\ ~OnBreakThrew(r)) =>
          /\ Rejected(r)
          /\ runs[r].rejection =
               IF IsError(GetBreakReason) THEN GetBreakReason ELSE WorkflowBreakError

\* --------------------------------------------------------------- claim C11
\* the onBreak hook of run r has settled by raising
OnBreakRaised(r) ==
    /\ obs[r].lastRaise # <<>>
    /\ obs[r].lastRaise[3] = <<"onBreak", 0>>

\* the break signal of run r came out of the retry loop (from a step body, a
\* step-level hook, or the workflow's onRetry or onSuccess hook), not from
\* the workflow's onFailed hook, which runs after the loop
BrokeInLoop(r) ==
    /\ obs[r].broke
    /\ Count(obs[r].hookCalls, <<"onFailed", 0>>) = 0

\* while the onBreak hook of run r is pending it has been invoked once, with
\* the reason of the break that ended the run and with the run's context;
\* a run that broke with the hook registered ends rejected, the hook invoked
\* once
OnBreakInvokedOnce(r) ==
    /\ (runs[r].pc = "wfOnBreak" /\ obs[r].lastBreak # <<>>) =>
         /\ Count(obs[r].hookCalls, <<"onBreak", 0>>) = 1
         /\ obs[r].hookArgs[<<"onBreak", 0>>] = <<obs[r].lastBreak[1], runs[r].context>>
    /\ (Done(r) /\ BrokeInLoop(r) /\ "onBreak" \in hooks) =>
         /\ Rejected(r)
         /\ Count(obs[r].hookCalls, <<"onBreak", 0>>) = 1

\* C11 as stated: a break with reason r that reaches execute() with an
\* onBreak hook registered has the hook invoked exactly once with (r, the
\* context of the run) before execute() rejects, and when r is not an Error
\* instance execute() rejects with the interruption error.
C11_Original ==
    \A r \in RunIds :
        /\ OnBreakInvokedOnce(r)
        /\ (Done(r) /\ <<"onBreak", 0>> \in DOMAIN obs[r].hookArgs) =>
             (obs[r].hookArgs[<<"onBreak", 0>>][1] \in NonErrors =>
                runs[r].rejection = WorkflowBreakError)

\* C11: a break with reason r that reaches execute() with an onBreak hook
\* registered has the hook invoked exactly once with (r, the context of the
\* run) before execute() rejects, and when r is not an Error instance and
\* the hook completes normally execute() rejects with the interruption
\* error.
C11_OnBreakOnceWithReason ==
    \A r \in RunIds :
        /\ OnBreakInvokedOnce(r)
        /\ (Done(r) /\ <<"onBreak", 0>> \in DOMAIN obs[r].hookArgs /\ ~OnBreakRaised(r)) =>
             (obs[r].hookArgs[<<"onBreak", 0>>][1] \in NonErrors =>
                runs[r].rejection = WorkflowBreakError)

C11_Witness ==
    \E r \in RunIds :
        /\ Done(r)
        /\ obs[r].bodyBreak = <<"stop">>
        /\ Count(obs[r].hookCalls, <<"onBreak", 0>>) = 1
        /\ obs[r].hookArgs[<<"onBreak", 0>>][1] = "stop"
        /\ Len(obs[r].hookArgs[<<"onBreak", 0>>][2].resultsByIndex) = 1
        /\ obs[r].hookRaises = 0
        /\ runs[r].rejection = WorkflowBreakError

\* --------------------------------------------------------------- claim C12
\* the values of a sequence of <<name, value>> writes, in order
WrittenValues(w) == [k \in 1..Len(w) |-> w[k][2]]
\* the value of the last write under the name, NoResult when there is none
LastWritten(w, name) ==
    IF \E k \in 1..Len(w) : w[k][1] = name
      THEN w[CHOOSE k \in 1..Len(w) :
                 /\ w[k][1] = name
                 /\ \A j \in 1..Len(w) : w[j][1] = name => j <= k][2]
      ELSE NoResult

\* C12: the one context of an execute() call is never reset during the call:
\* at every moment, and so whenever a step body of any iteration is given
\* it, getAllResults() lists every value added to it since the call began
\* (by the workflow storing a step's result, or by a step body, also one
\* that failed afterwards) in the order added, and getResultByName(name) is
\* the latest value added under the name.
C12_ContextPersists ==
    \A r \in RunIds :
        /\ GetAllResults(runs[r].context) = WrittenValues(obs[r].written)
        /\ \A n \in Names \cup WriteNames :
             GetResult(runs[r].context, n) = LastWritten(obs[r].written, n)

C12_Witness ==
    \E r \in RunIds :
        /\ runs[r].pc = "body"
        /\ runs[r].attempt = 2
        /\ obs[r].bodyFails[1] = 1
        /\ obs[r].written = <<<<"k", "w">>>>
        /\ GetResult(runs[r].context, "k") = "w"

\* --------------------------------------------------------------- claim C13
\* the last n entries of a sequence
Suffix(q, n) == SubSeq(q, Len(q) - n + 1, Len(q))

\* C13: the WorkflowResult execute() resolves with holds the results of the
\* final iteration only: getResultCount() is the number of registered steps
\* and entry i is what step i's body returned in that iteration, however
\* many earlier iterations failed part-way; the context of the run holds
\* every result stored in any iteration, the final iteration's last, so it
\* is at least as long and longer when an earlier iteration stored a result.
C13_ResultOfFinalIteration ==
    \A r \in RunIds :
        Resolved(r) =>
          /\ GetResultCount(runs[r].returned) = Len(actions)
          /\ GetAllResults(runs[r].returned) = [i \in Steps |-> obs[r].lastRet[i]]
          /\ \A i \in Steps : obs[r].iterCalls[i] >= 1
          /\ Len(GetAllResults(runs[r].context)) = Cardinality(obs[r].returns)
          /\ Suffix(GetAllResults(runs[r].context), Len(actions))
               = GetAllResults(runs[r].returned)

C13_Witness ==
    \E r \in RunIds :
        /\ Resolved(r)
        /\ runs[r].attempt = 2
        /\ Len(actions) = 2
        /\ GetAllResults(runs[r].returned) = <<"v2", "v1">>
        /\ GetAllResults(runs[r].context) = <<"v1", "v2", "v1">>

\* --------------------------------------------------------------- claim C14
\* C14: two steps may be registered under one name; after a run that
\* resolved, getAllResults() holds the result of each of them at its own
\* position (and has one entry per registered step), while getResult(name)
\* is the result of the later-registered of the two.
C14_DuplicateNames ==
    \A r \in RunIds :
        \A i, j \in Steps :
            (Resolved(r) /\ i < j /\ actions[i].name = actions[j].name) =>
              /\ Len(GetAllResults(runs[r].returned)) = Len(actions)
              /\ GetAllResults(runs[r].returned)[i] = obs[r].lastRet[i]
              /\ GetAllResults(runs[r].returned)[j] = obs[r].lastRet[j]
              /\ j = LastNamed(j) =>
                   GetResult(runs[r].returned, actions[j].name) = obs[r].lastRet[j]

C14_Witness ==
    \E r \in RunIds :
        /\ Resolved(r)
        /\ Len(actions) = 2
        /\ actions[1].name = actions[2].name
        /\ obs[r].lastRet[1] = "v1"
        /\ obs[r].lastRet[2] = "v2"
        /\ GetAllResults(runs[r].returned) = <<"v1", "v2">>
        /\ GetResult(runs[r].returned, actions[1].name) = "v2"

\* --------------------------------------------------------------- claim C15
\* C15: while a step body runs, context.getAttempt() is the 1-based number
\* of the workflow's current iteration, whatever the step's own attempt;
\* when the first step has budget 1 its body is invoked once per iteration,
\* so its k-th invocation observes k (1, 2, 3 when the workflow's attempts
\* are 3 and the body fails twice).
C15_AttemptIsIteration ==
    \A r \in RunIds :
        runs[r].pc = "body" =>
          /\ GetAttempt(runs[r].context) = runs[r].attempt
          /\ GetAttempt(runs[r].context) \in 1..attempts
          /\ actions[1].attempts = 1 =>
               GetAttempt(runs[r].context) = obs[r].bodyCalls[1]

C15_Witness ==
    \E r \in RunIds :
        /\ runs[r].pc = "body"
        /\ attempts = 3
        /\ Len(actions) = 1
        /\ actions[1].attempts = 1
        /\ obs[r].bodyFails[1] = 2
        /\ obs[r].bodyCalls[1] = 3
        /\ GetAttempt(runs[r].context) = 3

\* --------------------------------------------------------------- claim C16
\* C16: an attempts option of 0 gives a budget of exactly 1.  Given to the
\* workflow: there is one iteration and no onRetry call of the workflow.
\* Given to a step: its body is invoked at most once per iteration and its
\* onRetry hook never.  Given to both: every step body reached is invoked
\* exactly once, and if it fails (no hook raising) execute() rejects with
\* the error of that single invocation.
C16_ZeroIsOne ==
    \A r \in RunIds :
        /\ caller.options[1] = 0 =>
             /\ attempts = 1
             /\ runs[r].attempt <= 1
             /\ Count(obs[r].hookCalls, <<"onRetry", 0>>) = 0
        /\ \A i \in Steps :
             caller.options[2][i] = 0 =>
               /\ actions[i].attempts = 1
               /\ obs[r].iterCalls[i] <= 1
               /\ Count(obs[r].hookCalls, <<"onRetry", i>>) = 0
               /\ caller.options[1] = 0 =>
                    /\ obs[r].bodyCalls[i] <= 1
                    /\ (i <= runs[r].idx) <=> (obs[r].bodyCalls[i] = 1)
                    /\ (ExhaustedQuietly(r) /\ obs[r].lastErrStep = i) =>
                         /\ runs[r].rejection = obs[r].lastErr
                         /\ obs[r].bodyFails[i] = 1

C16_Witness ==
    \E r \in RunIds :
        /\ caller.options = <<0, <<0, 0>>>>
        /\ ExhaustedQuietly(r)
        /\ obs[r].bodyCalls = [ZeroSteps EXCEPT ![1] = 1, ![2] = 1]
        /\ obs[r].lastErrStep = 2
        /\ runs[r].rejection = "E2"

\* --------------------------------------------------------------- claim C17
\* run r is the latest execute() call made
Latest(r) ==
    /\ runs[r].pc # "idle"
    /\ \A q \in RunIds : q > r => runs[q].pc = "idle"

\* C17: when execute() is called on one workflow again and again, each call
\* after the previous one has settled, every call works on a context of its
\* own, which holds what was added during that call and nothing stored by
\* an earlier call, and wasBroken() tells whether the latest call made a
\* break call: it is false after a call without one even if the call
\* before it was broken.
C17_SequentialReuse ==
    \A r \in RunIds :
        /\ GetAllResults(runs[r].context) = WrittenValues(obs[r].written)
        /\ DOMAIN runs[r].context.resultsByName
             = {obs[r].written[k][1] : k \in 1..Len(obs[r].written)}
        /\ Latest(r) => (WasBroken <=> obs[r].lastBreak # <<>>)

C17_Witness ==
    \E r \in RunIds :
        /\ r > 1
        /\ Latest(r)
        /\ Rejected(r - 1)
        /\ obs[r - 1].lastBreak = <<"E2">>
        /\ GetAllResults(runs[r - 1].context) = <<"v1">>
        /\ Done(r)
        /\ obs[r].lastBreak = <<>>
        /\ GetAllResults(runs[r].context) = <<"v2">>
        /\ ~WasBroken

\* --------------------------------------------------------------- claim C18
\* the latest raise an observer with record o saw was an ordinary throw
ThrewLast(o) == o.lastRaise # <<>> /\ o.lastRaise[1] = "throw"

\* the break state is the workflow's, not a call's: what is recorded is the
\* reason of the latest break call of whichever call made it
BreakStateOfWorkflow ==
    /\ isBroken => \E q \in RunIds : obs[q].lastBreak # <<>>
    /\ breakReason = "undefined" \/ \E q \in RunIds : obs[q].lastBreak = <<breakReason>>

\* a step of call r: starting, it clears the broken flag, whichever call set
\* it; having the onBreak hook invoked, or rejecting on a break signal, it
\* uses the reason the workflow holds at that moment, whichever call
\* recorded it
UsesBreakStateOfWorkflow(r) ==
    /\ (runs[r].pc = "idle" /\ runs'[r].pc # "idle") => ~isBroken'
    /\ (runs[r].pc # "wfOnBreak" /\ runs'[r].pc = "wfOnBreak") =>
         obs'[r].hookArgs[<<"onBreak", 0>>][1] = breakReason'
    /\ (runs[r].pc # "done" /\ runs'[r].pc = "done"
          /\ obs'[r].broke /\ ~ThrewLast(obs'[r])) =>
         /\ runs'[r].outcome = "rejected"
         /\ runs'[r].rejection =
              IF IsError(breakReason') THEN breakReason' ELSE WorkflowBreakError

\* C18: execute() calls that overlap on one workflow share its break state:
\* the flag and the reason are those of the latest break call of any of
\* the calls, every call that starts clears the flag and every call that is
\* ended by a break signal rejects with the reason held at that moment, so
\* that a call can reject with a reason another call recorded and a call
\* can clear the flag of a pending call that has broken.
C18_SharedBreakState ==
    [][BreakStateOfWorkflow' /\ \A r \in RunIds : UsesBreakStateOfWorkflow(r)]_vars

C18_Witness ==
    \E r, q \in RunIds :
        /\ r # q
        /\ Rejected(r)
        /\ runs[r].rejection = "E2"
        /\ obs[r].lastBreak = <<"stop">>
        /\ obs[r].hookRaises = 0
        /\ obs[q].lastBreak = <<"E2">>
        /\ caller.foundBroken

\* --------------------------------------------------------------- claim C19
\* every message preceded by the separator, in order
RECURSIVE EachAfterSeparator(_, _)
EachAfterSeparator(msgs, separator) ==
    IF msgs = <<>> THEN ""
    ELSE separator \o Head(msgs) \o EachAfterSeparator(Tail(msgs), separator)

\* C19: after any sequence of add and release calls, the latest release
\* returned the separator followed by the messages added since the release
\* before it (and its own lastMessage when given and not empty) joined by
\* the separator in the order added, the empty string when there were none,
\* and it left the buffer empty; the buffer holds exactly the messages added
\* since, so that a release() right after a release returns ''.
C19_ReleaseJoinsAndEmpties ==
    /\ released.returned # None =>
         released.returned = EachAfterSeparator(released.batch, releaser.separator)
    /\ (released.returned # None /\ released.batch = <<>>) => released.returned = ""
    /\ released.last = "release" => releaser.messages = <<>>
    /\ releaser.messages = released.added

C19_Witness ==
    /\ releaser.separator = ", "
    /\ released.last = "release"
    /\ released.batch = <<"m1", "", "m2">>
    /\ released.returned = ", m1, , m2"
    /\ releaser.messages = <<>>

\* --------------------------------------------------------------- claim C20
\* the workflow's onFailed hook of run r has settled by raising
OnFailedRaised(r) ==
    /\ obs[r].lastRaise # <<>>
    /\ obs[r].lastRaise[3] = <<"onFailed", 0>>

\* C20: when the workflow's onFailed hook, called after the attempts were
\* exhausted by an ordinary error, raises an error or calls break, the
\* failure is handled like a break reaching execute(): wasBroken() is true,
\* getBreakReason() is the value raised (the reason passed to break), the
\* onBreak hook is invoked if registered, and execute() rejects with the
\* reason if it is an Error instance and with the interruption error
\* otherwise.
C20_OnFailedFailureIsBreak ==
    \A r \in RunIds :
        (Done(r) /\ OnFailedRaised(r) /\ obs[r].lastRaise[1] \in {"throw", "break"}) =>
          /\ WasBroken
          /\ GetBreakReason = obs[r].lastRaise[2]
          /\ "onBreak" \in hooks => Count(obs[r].hookCalls, <<"onBreak", 0>>) = 1
          /\ Rejected(r)
          /\ runs[r].rejection = BreakRejection(obs[r].lastRaise[2])

\* what the code does instead: the value the hook threw is rethrown as it
\* is, with no break recorded and the onBreak hook left out
OnFailedFailureRethrown ==
    \A r \in RunIds :
        (Done(r) /\ OnFailedRaised(r) /\ obs[r].lastRaise[1] = "throw") =>
          /\ ~WasBroken
          /\ Count(obs[r].hookCalls, <<"onBreak", 0>>) = 0
          /\ Rejected(r)
          /\ runs[r].rejection = obs[r].lastRaise[2]

\* --------------------------------------------------------------- claim C21
\* C21: when the workflow's onBreak hook raises, by throwing an ordinary
\* value or by calling break again, the recorded break reason becomes the
\* value thrown (the reason passed), so that after execute() has rejected
\* getBreakReason() returns it, and the rejection is derived from it: the
\* value itself if it is an Error instance, else the interruption error.
C21_OnBreakRaiseUpdatesReason ==
    \A r \in RunIds :
        (Done(r) /\ OnBreakRaised(r) /\ obs[r].lastRaise[1] \in {"throw", "break"}) =>
          /\ Rejected(r)
          /\ GetBreakReason = obs[r].lastRaise[2]
          /\ runs[r].rejection = BreakRejection(obs[r].lastRaise[2])

\* the two ways apart (used to locate the divergence): a break call made by
\* the hook is recorded and determines the rejection; a value the hook
\* throws is rethrown as it is and the recorded reason stays what it was
\* when the hook was invoked
OnBreakBreakRecorded ==
    \A r \in RunIds :
        (Done(r) /\ OnBreakRaised(r) /\ obs[r].lastRaise[1] = "break") =>
          /\ Rejected(r)
          /\ GetBreakReason = obs[r].lastRaise[2]
          /\ runs[r].rejection = BreakRejection(obs[r].lastRaise[2])
OnBreakThrowRethrown ==
    \A r \in RunIds :
        (Done(r) /\ OnBreakRaised(r) /\ obs[r].lastRaise[1] = "throw") =>
          /\ Rejected(r)
          /\ GetBreakReason = obs[r].hookArgs[<<"onBreak", 0>>][1]
          /\ runs[r].rejection = obs[r].lastRaise[2]

\* --------------------------------------------------------------- claim C22
\* the step-level hook of run r that is pending, as a hook id
PendingActionHook(r) ==
    <<CASE runs[r].pc = "actOnSuccess" -> "onSuccess"
        [] runs[r].pc = "actOnRetry" -> "onRetry"
        [] OTHER -> "onFailed",
      runs[r].idx>>

\* C22 as stated: during the a-th attempt of a step of one
\* WorkflowAction.execute call, the body and the step's hooks observe
\* context.getAttempt() = a.
C22_Original ==
    \A r \in RunIds :
        InAction(r) =>
          /\ obs[r].execBody \in 1..actions[runs[r].idx].attempts
          /\ GetAttempt(runs[r].context) = obs[r].execBody

\* C22: during the a-th attempt of a step of one WorkflowAction.execute call
\* (1 <= a <= the step's attempts) the number a is held by the step itself
\* and handed to the step's hooks as their first argument, while
\* context.getAttempt(), which the body and the hooks observe, is the number
\* of the workflow's iteration.
C22_StepAttemptOnStep ==
    \A r \in RunIds :
        InAction(r) =>
          /\ obs[r].execBody \in 1..actions[runs[r].idx].attempts
          /\ actions[runs[r].idx].currentAttempt = obs[r].execBody
          /\ runs[r].pc # "body" =>
               obs[r].hookArgs[PendingActionHook(r)][1] = obs[r].execBody
          /\ GetAttempt(runs[r].context) = runs[r].attempt

C22_Witness ==
    \E r \in RunIds :
        /\ runs[r].pc = "actOnFailed"
        /\ runs[r].attempt = 2
        /\ obs[r].execBody = 1
        /\ obs[r].bodyCalls[1] = 2
        /\ obs[r].hookArgs[<<"onFailed", 1>>][1] = 1
        /\ GetAttempt(runs[r].context) = 2

\* --------------------------------------------------------------- claim C23
\* how often hook h was invoked in run r when it is among the hooks `on`
\* registered on its step or workflow, and -1 when it is not registered
HookCount(r, h, on) == IF h[1] \in on THEN Count(obs[r].hookCalls, h) ELSE -1

\* C23: a step's attempts are counted anew in every iteration.  Within an
\* iteration its body is invoked at most `attempts` times; its onFailed hook
\* is invoked only after the last of them, with that attempt's number and
\* error, and before the workflow has seen the error (the workflow's onRetry
\* hook has run once per earlier iteration only, its onFailed hook not at
\* all).  When the body of the first step fails every time and nothing
\* raises, a workflow of W attempts and a step of k attempts end with the
\* body invoked W * k times, the step's onRetry hook W * (k - 1) times and
\* its onFailed hook W times.
C23_FreshBudgetPerIteration ==
    \A r \in RunIds :
        /\ \A i \in Steps : obs[r].iterCalls[i] <= actions[i].attempts
        /\ (runs[r].pc = "actOnFailed" /\ ~Raised(obs[r])) =>
             LET i == runs[r].idx
             IN /\ obs[r].iterCalls[i] = actions[i].attempts
                /\ obs[r].execBody = actions[i].attempts
                /\ obs[r].hookArgs[<<"onFailed", i>>]
                     = <<actions[i].attempts, obs[r].lastErr>>
                /\ obs[r].lastErrStep = i
                /\ HookCount(r, <<"onRetry", 0>>, hooks) \in {-1, runs[r].attempt - 1}
                /\ Count(obs[r].hookCalls, <<"onFailed", 0>>) = 0
        /\ (ExhaustedQuietly(r) /\ obs[r].bodyFails[1] = obs[r].bodyCalls[1]) =>
             /\ obs[r].bodyCalls[1] = attempts * actions[1].attempts
             /\ HookCount(r, <<"onRetry", 1>>, actions[1].hooks)
                  \in {-1, attempts * (actions[1].attempts - 1)}
             /\ HookCount(r, <<"onFailed", 1>>, actions[1].hooks) \in {-1, attempts}

C23_Witness ==
    \E r \in RunIds :
        /\ ExhaustedQuietly(r)
        /\ attempts = 2
        /\ actions[1].attempts = 2
        /\ obs[r].bodyFails[1] = 4
        /\ obs[r].bodyCalls[1] = 4

\* --------------------------------------------------------------- claim C24
\* C24: in a run in which nothing has raised (no break, no raising hook) the
\* workflow's hooks are invoked at fixed points.  onRetry: once after every
\* failed iteration but the last, with that iteration's error, before the
\* next iteration starts, so that during iteration a it has been invoked
\* a - 1 times.  onSuccess: once, after every step of the iteration has
\* stored its result and before execute() resolves.  onFailed: once, with
\* the error of the last iteration, after all `attempts` iterations failed.
\* A run that resolves has not invoked onFailed, one that rejects has not
\* invoked onSuccess.
C24_WorkflowHookTiming ==
    \A r \in RunIds :
        ~Raised(obs[r]) =>
          /\ InAction(r) =>
               /\ HookCount(r, <<"onRetry", 0>>, hooks) \in {-1, runs[r].attempt - 1}
               /\ Count(obs[r].hookCalls, <<"onSuccess", 0>>) = 0
               /\ Count(obs[r].hookCalls, <<"onFailed", 0>>) = 0
          /\ runs[r].pc = "wfOnRetry" =>
               /\ runs[r].attempt < attempts
               /\ Count(obs[r].hookCalls, <<"onRetry", 0>>) = runs[r].attempt
               /\ obs[r].hookArgs[<<"onRetry", 0>>] = <<obs[r].lastErr>>
          /\ runs[r].pc = "wfOnSuccess" =>
               /\ Count(obs[r].hookCalls, <<"onSuccess", 0>>) = 1
               /\ GetResultCount(runs[r].workflowResult) = Len(actions)
               /\ \A i \in Steps : obs[r].iterCalls[i] >= 1
          /\ runs[r].pc = "wfOnFailed" =>
               /\ runs[r].attempt = attempts
               /\ Count(obs[r].hookCalls, <<"onFailed", 0>>) = 1
               /\ obs[r].hookArgs[<<"onFailed", 0>>] = <<obs[r].lastErr>>
          /\ Resolved(r) =>
               /\ HookCount(r, <<"onSuccess", 0>>, hooks) \in {-1, 1}
               /\ HookCount(r, <<"onRetry", 0>>, hooks) \in {-1, runs[r].attempt - 1}
               /\ Count(obs[r].hookCalls, <<"onFailed", 0>>) = 0
          /\ Rejected(r) =>
               /\ HookCount(r, <<"onFailed", 0>>, hooks) \in {-1, 1}
               /\ HookCount(r, <<"onRetry", 0>>, hooks) \in {-1, attempts - 1}
               /\ Count(obs[r].hookCalls, <<"onSuccess", 0>>) = 0

C24_Witness ==
    \E r \in RunIds :
        /\ ExhaustedQuietly(r)
        /\ attempts = 2
        /\ obs[r].bodyFails[1] = 2
        /\ Count(obs[r].hookCalls, <<"onRetry", 0>>) = 1
        /\ obs[r].hookArgs[<<"onRetry", 0>>] = <<"E1">>
        /\ Count(obs[r].hookCalls, <<"onFailed", 0>>) = 1
        /\ obs[r].hookArgs[<<"onFailed", 0>>] = <<"E2">>

\* --------------------------------------------------------------- claim C25
\* the awaited calls of run r that have begun and not settled
InProgress(r) ==
    (IF runs[r].pc = "body" THEN {<<"body", runs[r].idx>>} ELSE {})
      \cup (IF runs[r].pc \in {"actOnSuccess", "actOnRetry", "actOnFailed"}
              THEN {PendingActionHook(r)} ELSE {})
      \cup {<<h, 0>> : h \in {x \in WorkflowHooks :
                                 \/ x = "onRetry" /\ runs[r].pc = "wfOnRetry"
                                 \/ x = "onSuccess" /\ runs[r].pc = "wfOnSuccess"
                                 \/ x = "onFailed" /\ runs[r].pc = "wfOnFailed"
                                 \/ x = "onBreak" /\ runs[r].pc = "wfOnBreak"}}

\* step j's body returned in the current iteration of run r
SucceededInIteration(r, j) ==
    \E t \in obs[r].returns : t[1] = j /\ t[6] = runs[r].attempt

\* while step idx is at work in run r: it is the one call in progress, every
\* step before it has succeeded in this iteration and has its result stored
\* at its position, no step after it has begun in this iteration, and
\* getActionName() is its name
OneStepAtATime(r) ==
    /\ Cardinality(InProgress(r)) <= 1
    /\ InAction(r) =>
         /\ \A j \in Steps : j < runs[r].idx => SucceededInIteration(r, j)
         /\ \A j \in Steps : j > runs[r].idx => obs[r].iterCalls[j] = 0
         /\ GetAllResults(runs[r].workflowResult)
              = [j \in 1..(runs[r].idx - 1) |-> obs[r].lastRet[j]]
         /\ GetActionName(runs[r].context) = actions[runs[r].idx].name

\* a step of run r that invokes the body of step j is: the start of an
\* iteration (j = 1), a further attempt of step j after its body failed, or
\* the moment step j - 1's body (or its onSuccess hook) returned, its result
\* being stored in that same step
BodiesBeginInOrder(r) ==
    \A j \in Steps :
        obs'[r].bodyCalls[j] > obs[r].bodyCalls[j] =>
          \/ /\ j = 1
             /\ runs[r].pc \in {"idle", "body", "actOnRetry", "actOnFailed", "wfOnRetry"}
             /\ runs'[r].attempt = runs[r].attempt + 1
          \/ /\ runs[r].idx = j
             /\ runs[r].pc \in {"body", "actOnRetry"}
             /\ runs'[r].attempt = runs[r].attempt
             /\ obs'[r].bodyFails[j] >= 1
          \/ /\ runs[r].idx = j - 1
             /\ runs[r].pc \in {"body", "actOnSuccess"}
             /\ runs'[r].attempt = runs[r].attempt
             /\ GetResultCount(runs'[r].workflowResult) = j - 1
             /\ GetResultCount(runs[r].workflowResult) = j - 2

\* C25: within one run the steps execute one after the other in the order
\* registered: at most one body or hook is in progress at any time, step
\* N + 1's body begins only when step N's body and onSuccess hook have
\* completed successfully in the same iteration, and getActionName() is the
\* name of the step whose body or hook is running.
C25_StrictlySequential ==
    [][\A r \in RunIds : OneStepAtATime(r)' /\ BodiesBeginInOrder(r)]_vars

C25_Witness ==
    \E r \in RunIds :
        /\ runs[r].pc = "actOnSuccess"
        /\ runs[r].idx = 2
        /\ Count(obs[r].hookCalls, <<"onSuccess", 1>>) = 1
        /\ actions[1].name = "b"
        /\ actions[2].name = "a"
        /\ GetActionName(runs[r].context) = "a"
        /\ GetAllResults(runs[r].workflowResult) = <<"v2">>

\* --------------------------------------------------------------- claim C26
\* Idle -> Running -> {Succeeded, Broken, Failed}: where run r stands.  It
\* is on the Broken path once a break signal has left its retry loops.
RunState(r) ==
    CASE runs[r].pc = "idle" -> "Idle"
      [] BrokeInLoop(r) -> "Broken"
      [] Resolved(r) -> "Succeeded"
      [] Rejected(r) -> "Failed"
      [] OTHER -> "Running"

\* a break(reason) call was made during run r, by a body, by a hook, or by
\* the catch block that converts a raising hook into a break
BreakCalled(r) == obs[r].lastBreak # <<>>

\* the break signal of run r was thrown by a step body itself, as a
\* WorkflowBreakError it constructed, with no break call before it
BodyThrewSignal(r) ==
    /\ obs[r].lastRaise # <<>>
    /\ \/ obs[r].lastRaise[1] = "throwBreakError" /\ obs[r].lastRaise[3][1] = "body"
       \/ OnBreakRaised(r) /\ obs[r].lastRaise[1] # "break"
    /\ obs[r].breaks = 0

\* Broken is terminal: nothing but the onBreak hook is invoked any more, the
\* hook is invoked once if registered, and the run does not resolve
BrokenIsTerminal(r) ==
    RunState(r) = "Broken" =>
      /\ OnlyOnBreakAfter(r)
      /\ ~Resolved(r)
      /\ Done(r) => /\ Rejected(r)
                    /\ HookCount(r, <<"onBreak", 0>>, hooks) \in {-1, 1}

\* the steps of the state machine: a run leaves Idle for Running (or, with
\* nothing awaited, for its outcome), Broken stays Broken, and a settled run
\* changes no more
RunStateSteps(r) ==
    /\ RunState(r)' = "Idle" => RunState(r) = "Idle"
    /\ RunState(r) = "Broken" => RunState(r)' = "Broken"
    /\ RunState(r) \in {"Succeeded", "Failed"} => runs'[r] = runs[r]
    /\ Done(r) => runs'[r] = runs[r]

\* C26 as stated: a run is on the Broken path only if a break(reason) call
\* was made during it, and then wasBroken() is true; Broken is terminal.
C26_Original ==
    \A r \in RunIds :
        /\ RunState(r) = "Broken" => BreakCalled(r) /\ WasBroken
        /\ BrokenIsTerminal(r)

\* C26: a run is on the Broken path only if a break signal was raised during
\* it: by a break(reason) call, and then wasBroken() is true and
\* getBreakReason() is the latest reason passed, or by a step body throwing
\* a WorkflowBreakError of its own, and then no break is recorded and
\* wasBroken() is false.  Broken is terminal: the run invokes nothing but
\* the onBreak hook, never retries at either level, never resolves, and its
\* state changes no more once execute() has settled.
C26_BrokenOnlyByBreakSignal ==
    [][\A r \in RunIds :
          /\ (RunState(r) = "Broken")' =>
               /\ BreakCalled(r)' => WasBroken' /\ GetBreakReason' = obs'[r].lastBreak[1]
               /\ ~BreakCalled(r)' => ~WasBroken' /\ BodyThrewSignal(r)'
          /\ BrokenIsTerminal(r)'
          /\ RunStateSteps(r)]_vars

C26_Witness ==
    \E r \in RunIds :
        /\ RunState(r) = "Broken"
        /\ Rejected(r)
        /\ obs[r].lastRaise = <<"break", "stop", <<"onSuccess", 1>>>>
        /\ WasBroken
        /\ runs[r].attempt < attempts
        /\ obs[r].bodyCalls = [ZeroSteps EXCEPT ![1] = 1]

\* --------------------------------------------------------------- claim C27
\* C27: nothing the workflow does adds to the failure ledger of a
\* WorkflowResult: the result of the iteration at work, and so every result
\* execute() resolves with, has getFailedActions() empty and
\* hasFailure(name, attempt) false for every name and attempt, also when
\* step bodies failed and were retried, by the step or by the workflow,
\* before the run succeeded.
C27_LedgerNeverPopulated ==
    \A r \in RunIds :
        \A store \in {runs[r].workflowResult, runs[r].returned} :
            /\ GetFailedActions(store) = {}
            /\ GetAllFailures(store) = EmptyMap
            /\ \A n \in Names, a \in 0..(MaxSize + 1) : ~HasFailure(store, n, a)

C27_Witness ==
    \E r \in RunIds :
        /\ Resolved(r)
        /\ runs[r].attempt = 2
        /\ runs[r].actAttempt = 2
        /\ obs[r].bodyFails[1] = 3
        /\ GetResultCount(runs[r].returned) = 1
        /\ GetFailedActions(runs[r].returned) = {}

\* --------------------------------------------------------------- claim C28
\* how many entries of the sequence q are in the set S
RECURSIVE CountIn(_, _)
CountIn(q, S) ==
    IF q = <<>> THEN 0
    ELSE (IF Head(q) \in S THEN 1 ELSE 0) + CountIn(Tail(q), S)

\* the step-level onSuccess hook of run r has settled by raising
StepOnSuccessRaised(r) ==
    /\ obs[r].lastRaise # <<>>
    /\ obs[r].lastRaise[3][1] = "onSuccess"
    /\ obs[r].lastRaise[3][2] > 0

\* C28: in one run the workflow's onFailed and onBreak hooks are never both
\* invoked and neither is invoked twice, also when the onBreak hook itself
\* calls break; in one WorkflowAction.execute call at most one of the
\* step's onSuccess and onFailed hooks is invoked, once, as the last hook of
\* the call; and after the step's onSuccess hook has raised, neither its
\* onFailed hook nor any body is invoked.
C28_TerminalHooksExclusive ==
    \A r \in RunIds :
        /\ Count(obs[r].hookCalls, <<"onFailed", 0>>)
             + Count(obs[r].hookCalls, <<"onBreak", 0>>) <= 1
        /\ CountIn(obs[r].execHooks, {"onSuccess", "onFailed"}) <= 1
        /\ \A k \in 1..Len(obs[r].execHooks) :
             obs[r].execHooks[k] \in {"onSuccess", "onFailed"} => k = Len(obs[r].execHooks)
        /\ StepOnSuccessRaised(r) =>
             /\ obs[r].execHooks[Len(obs[r].execHooks)] = "onSuccess"
             /\ OnlyOnBreakAfter(r)

C28_Witness ==
    \E r \in RunIds :
        /\ Done(r)
        /\ "onFailed" \in hooks
        /\ obs[r].execHooks = <<"onSuccess">>
        /\ obs[r].hookRaises = 2
        /\ obs[r].lastRaise = <<"break", "stop", <<"onBreak", 0>>>>
        /\ Count(obs[r].hookCalls, <<"onBreak", 0>>) = 1
        /\ Count(obs[r].hookCalls, <<"onFailed", 0>>) = 0
        /\ obs[r].bodyCalls = [ZeroSteps EXCEPT ![1] = 1]

\* --------------------------------------------------------------- claim C29
\* the reason of the latest break call of the calls up to call r, and
\* undefined when none of them made one
RECURSIVE ReasonLeftBy(_)
ReasonLeftBy(r) ==
    IF r = 0 THEN "undefined"
    ELSE IF obs[r].lastBreak # <<>> THEN obs[r].lastBreak[1]
    ELSE ReasonLeftBy(r - 1)

\* the step in which call r starts clears the flag and leaves the reason
StartKeepsReason(r) ==
    (runs[r].pc = "idle" /\ runs'[r].pc # "idle") =>
      /\ ~WasBroken'
      /\ GetBreakReason' = GetBreakReason

\* C29: execute() resets the broken flag and never the recorded reason.
\* When it is called again and again on one workflow, each call after the
\* previous one has settled, the step that starts a call leaves
\* getBreakReason() as it was, and getBreakReason() is at every moment the
\* reason of the latest break call of any of the calls: after a call that
\* broke with reason r and a later call without a break call, wasBroken()
\* is false and getBreakReason() is still r.
C29_ReasonSurvivesExecute ==
    [][\A r \in RunIds :
          /\ StartKeepsReason(r)
          /\ Latest(r)' =>
               /\ GetBreakReason' = ReasonLeftBy(r)'
               /\ BreakCalled(r)' <=> WasBroken']_vars

C29_Witness ==
    \E r \in RunIds :
        /\ r > 1
        /\ Latest(r)
        /\ Done(r)
        /\ ~BreakCalled(r)
        /\ obs[r].bodyCalls[1] >= 1
        /\ obs[r - 1].lastBreak = <<"E2">>
        /\ runs[r - 1].rejection = "E2"
        /\ ~WasBroken
        /\ GetBreakReason = "E2"

\* --------------------------------------------------------------- claim C30
\* while the onSuccess hook of step idx is pending in run r, the result its
\* body returned is held back: the result of the iteration holds the
\* results of the steps before it only, and the context holds one entry per
\* body return of the run but this one
PendingResultUnstored(r) ==
    runs[r].pc = "actOnSuccess" =>
      /\ runs[r].value = obs[r].lastRet[runs[r].idx]
      /\ GetResultCount(runs[r].workflowResult) = runs[r].idx - 1
      /\ Len(GetAllResults(runs[r].context)) = Cardinality(obs[r].returns) - 1

\* the step of run r in which a pending step-level onSuccess hook settles:
\* if it returns, the held result is appended to the result of the iteration
\* and to the context; if it raises, neither store changes, no body is
\* invoked (the step is not re-attempted, no later step runs) and what
\* follows is the onBreak hook or the rejection
OnSuccessSettles(r) ==
    (runs[r].pc = "actOnSuccess" /\ runs'[r] # runs[r]) =>
      IF obs'[r].hookRaises = obs[r].hookRaises
        THEN /\ GetAllResults(runs'[r].workflowResult)
                  = Append(GetAllResults(runs[r].workflowResult), runs[r].value)
             /\ GetAllResults(runs'[r].context)
                  = Append(GetAllResults(runs[r].context), runs[r].value)
        ELSE /\ runs'[r].workflowResult = runs[r].workflowResult
             /\ runs'[r].context = runs[r].context
             /\ obs'[r].bodyCalls = obs[r].bodyCalls
             /\ runs'[r].pc \in {"wfOnBreak", "done"}
             /\ runs'[r].pc = "done" => runs'[r].outcome = "rejected"

\* C30: the result of a step is stored, in the WorkflowResult and in the
\* context, only when its onSuccess hook has completed normally: when the
\* body returns and the hook raises (an error or a break) the result is
\* added to neither, the body is not attempted again and no later step
\* runs.
C30_ResultAfterOnSuccess ==
    [][\A r \in RunIds :
          /\ PendingResultUnstored(r)'
          /\ OnSuccessSettles(r)
          /\ StepOnSuccessRaised(r)' =>
               /\ OnlyOnBreakAfter(r)'
               /\ Len(GetAllResults(runs'[r].context)) = Cardinality(obs'[r].returns) - 1]_vars

C30_Witness ==
    \E r \in RunIds :
        /\ Rejected(r)
        /\ obs[r].lastRaise = <<"throw", "E1", <<"onSuccess", 1>>>>
        /\ Len(actions) = 2
        /\ actions[1].attempts = 2
        /\ obs[r].bodyCalls = [ZeroSteps EXCEPT ![1] = 1]
        /\ obs[r].lastRet[1] = "v1"
        /\ GetAllResults(runs[r].context) = <<>>
        /\ GetResultCount(runs[r].workflowResult) = 0
====
